---- MODULE Spec2Model ----
(***************************************************************************)
(* A model of the git analysis engine of CodeScribe                        *)
(* (src/src/services/gitAnalysisEngine.ts): analyzeSelection and the       *)
(* helpers it calls.  Text is modelled as sequences of lines, a line as a  *)
(* sequence of string tokens; the external tools (git, gh) answer each     *)
(* query with one of a small set of responses.                             *)
(***************************************************************************)
EXTENDS Integers, Sequences, FiniteSets, TLC

VARIABLES
    pc,            \* position of analyzeSelection
    repoState,     \* what the file system and the index hold for filePath
    startLine,     \* argument startLine
    endLine,       \* argument endLine
    blameOutput,   \* stdout of git blame (sequence of lines)
    lineCommitMap, \* parseBlameWithLineTracking's result
    commits,       \* analyzeSelection's unique commit list
    idx,           \* loop position of getCommitDetailsWithLineTracking
    parts,         \* the split metadata of the commit being resolved
    fileList,      \* the modified-file list of the commit being resolved
    possiblePaths, \* getLineEvolutionDiff's candidate paths
    candIdx,       \* position of the loop over possiblePaths
    gitCommand,    \* getLineEvolutionDiff's gitCommand variable
    commitInfos,   \* the entries pushed so far, then the sorted array
    pullRequests,  \* findPullRequests' array
    prIdx,         \* loop position of findPullRequests
    queries,       \* every external invocation issued so far, in order
    attempts,      \* the invocations for the commit resolved last, with responses
    failed,        \* the commits one of whose invocations failed
    result,        \* the value analyzeSelection resolves with
    errorMessage,  \* the message analyzeSelection rejects with
    hpc,           \* position of the hunk-extraction harness
    hDiff,         \* extractHunksForTrackedLines: diffOutput
    hAffected,     \* extractHunksForTrackedLines: affectedLines
    hStart,        \* extractHunksForTrackedLines: originalStartLine
    hEnd,          \* extractHunksForTrackedLines: originalEndLine
    hOut,          \* extractHunksForTrackedLines: the returned array
    hParsed,       \* extractHunksForTrackedLines: what each header parsed to
    run,           \* which of two calls of analyzeSelection is running; 0 for a single
                   \* call, 3 for the call the command makes
    log,           \* the invocations of the first call with what they answered
    first,         \* what the first call ended with
    commandRun     \* the run of the analyzeSelection command, if the call is made by it

engineVars == <<pc, repoState, startLine, endLine, blameOutput, lineCommitMap,
                commits, idx, parts, fileList, possiblePaths, candIdx,
                gitCommand, commitInfos, pullRequests, prIdx, queries, attempts,
                failed, result, errorMessage>>
hunkVars == <<hpc, hDiff, hAffected, hStart, hEnd, hOut, hParsed>>
twinVars == <<run, log, first, commandRun>>
vars == <<engineVars, hunkVars, twinVars>>

(***************************************************************************)
(* Bounds of the model.                                                    *)
(***************************************************************************)
MaxLines == 2      \* longest selection
MaxFiles == 2      \* longest modified-file list of a commit
MaxBlameLines == 3 \* longest selection given to the blame parser alone
MaxHunks == 2      \* most hunks in a diff given to the hunk extraction

FirstLine == 10    \* smallest start line of a selection

None == "none"

(***************************************************************************)
(* Generic helpers over sequences.                                         *)
(***************************************************************************)
Range(s) == {s[i] : i \in DOMAIN s}

StartsWith(line, prefix) ==
    /\ Len(line) >= Len(prefix)
    /\ \A i \in 1..Len(prefix) : line[i] = prefix[i]

EndsWith(s, suffix) ==
    /\ Len(s) >= Len(suffix)
    /\ \A i \in 1..Len(suffix) : s[Len(s) - Len(suffix) + i] = suffix[i]

\* a sequence of tokens holds the tokens of another, in a row
Contains(text, sub) ==
    \E i \in 1..(Len(text) - Len(sub) + 1) : SubSeq(text, i, i + Len(sub) - 1) = sub

RECURSIVE Flatten(_)
Flatten(ss) == IF ss = <<>> THEN <<>> ELSE Head(ss) \o Flatten(Tail(ss))

(***************************************************************************)
(* Commit ids.  A token of Hashes stands for a 40-character hex string;    *)
(* ZeroHash is the all-zero id git blame gives to uncommitted lines.       *)
(***************************************************************************)
Commits == {"c1", "c2"}
ZeroHash == "c0"
Hashes == Commits \cup {ZeroHash}

(***************************************************************************)
(* git blame --porcelain: for each line of the range a header line that    *)
(* starts with the commit id, the commit's description the first time the  *)
(* commit is named, and the content line, which starts with a TAB.         *)
(***************************************************************************)
\* the parent git blame names in a commit's `previous` line: c2 is a root
\* commit, and uncommitted lines name the commit that is checked out
PreviousOf(c) ==
    IF c = "c1" THEN <<"c2">> ELSE IF c = ZeroHash THEN <<"c1">> ELSE <<>>

BlameRecordLines(attr, i) ==
    << <<attr[i], " ", "orig", " ", "final">> >>
    \o (IF \A j \in 1..(i - 1) : attr[j] # attr[i]
        THEN << <<"author", " ", "name">> >>
             \o (IF PreviousOf(attr[i]) # <<>>
                 THEN << <<"previous", " ">> \o PreviousOf(attr[i]) \o <<" ", "file">> >>
                 ELSE << <<"boundary">> >>)
             \o << <<"filename", " ", "file">> >>
        ELSE <<>>)
    \o << <<"\t", "content">> >>

PorcelainLines(attr) ==
    Flatten([i \in 1..Len(attr) |-> BlameRecordLines(attr, i)])
    \o << <<>> >>

\* the match without the anchor: a commit id anywhere in the line
BlameLineMatchUnanchored(line) ==
    LET hits == SelectSeq(line, LAMBDA t : t \in Hashes)
    IN  IF hits = <<>> THEN <<>> ELSE <<Head(hits)>>

\* line.match(/^([a-f0-9]{40})/): <<hash>> when the line starts with a
\* commit id, <<>> when it does not match
BlameLineMatch(line) ==
    IF Len(line) > 0 /\ line[1] \in Hashes THEN <<line[1]>> ELSE <<>>

RECURSIVE ParseBlameFrom(_, _, _)
ParseBlameFrom(lines, currentLineNumber, map) ==
    IF lines = <<>> THEN map
    ELSE LET match == BlameLineMatch(Head(lines))
         IN  IF match # <<>>
             THEN ParseBlameFrom(Tail(lines), currentLineNumber + 1,
                      [l \in DOMAIN map \cup {currentLineNumber} |->
                          IF l = currentLineNumber THEN match[1] ELSE map[l]])
             ELSE ParseBlameFrom(Tail(lines), currentLineNumber, map)

parseBlameWithLineTracking(blame, start) ==
    ParseBlameFrom(blame, start, [l \in {} |-> ZeroHash])

(***************************************************************************)
(* Array.from(new Set(Object.values(lineCommitMap))): the values in        *)
(* ascending key order, each kept at its first occurrence.                 *)
(***************************************************************************)
RECURSIVE SortedKeys(_)
SortedKeys(S) ==
    IF S = {} THEN <<>>
    ELSE LET m == CHOOSE x \in S : \A y \in S : x <= y
         IN  <<m>> \o SortedKeys(S \ {m})

ObjectValues(map) ==
    LET keys == SortedKeys(DOMAIN map)
    IN  [i \in 1..Len(keys) |-> map[keys[i]]]

\* the values, each kept at its last occurrence
RECURSIVE ArrayFromSetLast(_)
ArrayFromSetLast(values) ==
    IF values = <<>> THEN <<>>
    ELSE (IF Head(values) \in Range(Tail(values)) THEN <<>> ELSE <<Head(values)>>)
         \o ArrayFromSetLast(Tail(values))

RECURSIVE ArrayFromSetAcc(_, _)
ArrayFromSetAcc(values, acc) ==
    IF values = <<>> THEN acc
    ELSE ArrayFromSetAcc(Tail(values),
             IF Head(values) \in Range(acc) THEN acc ELSE Append(acc, Head(values)))

ArrayFromSet(values) == ArrayFromSetAcc(values, <<>>)

UniqueCommits(map) == ArrayFromSet(ObjectValues(map))

(***************************************************************************)
(* Unified diffs.  A line of text is a record: text is the sequence of     *)
(* its tokens, where the token "#" stands for a run of digits, and nums    *)
(* holds the values of the digit runs in order.                            *)
(***************************************************************************)
Line(text, nums) == [text |-> text, nums |-> nums]

TextLine(text) == Line(text, <<>>)

EmptyLine == TextLine(<<>>)

\* a hunk of a diff: counts are <<>> when the header omits them, else <<n>>
Hunk(oldStart, oldCount, newStart, newCount, body) ==
    [oldStart |-> oldStart, oldCount |-> oldCount,
     newStart |-> newStart, newCount |-> newCount, body |-> body]

\* the header `@@ -oldStart[,oldCount] +newStart[,newCount] @@` git writes
HunkHeaderLine(h) ==
    Line(<<"@", "@", " ", "-", "#">>
           \o (IF h.oldCount # <<>> THEN <<",", "#">> ELSE <<>>)
           \o <<" ", "+", "#">>
           \o (IF h.newCount # <<>> THEN <<",", "#">> ELSE <<>>)
           \o <<" ", "@", "@">>,
         <<h.oldStart>> \o h.oldCount \o <<h.newStart>> \o h.newCount)

\* the header `@@@ -1,2 -1,2 +1,3 @@@` of a hunk of a combined diff
CombinedHeaderLine ==
    Line(<<"@", "@", "@", " ", "-", "#", ",", "#", " ", "-", "#", ",", "#",
           " ", "+", "#", ",", "#", " ", "@", "@", "@">>,
         <<1, 2, 1, 2, 1, 3>>)

\* one line of a hunk's body: its marker, then its text; the marker "@" is
\* for a combined-diff header that follows the hunk in the text
BodyLine(marker) ==
    IF marker = "\\" THEN TextLine(<<"\\", " No newline at end of file">>)
    ELSE IF marker = "@" THEN CombinedHeaderLine
    ELSE TextLine(<<marker, "code">>)

HunkLines(h) ==
    <<HunkHeaderLine(h)>> \o [i \in 1..Len(h.body) |-> BodyLine(h.body[i])]

\* the header git writes before the hunks of the file at `path`
FileHeaderLines(path) ==
    << TextLine(<<"diff --git", " a/">> \o path \o <<" b/">> \o path),
       TextLine(<<"index", " 1..2">>),
       TextLine(<<"-", "-", "-", " a/">> \o path),
       TextLine(<<"+", "+", "+", " b/">> \o path) >>

\* the text of `git show <commit> --format="" -- <path>` for one file whose
\* change has the hunks hs; stdout ends with a newline, hence the last line
DiffText(hs, path) ==
    IF hs = <<>> THEN <<>>
    ELSE FileHeaderLines(path)
         \o Flatten([i \in 1..Len(hs) |-> HunkLines(hs[i])])
         \o <<EmptyLine>>

(***************************************************************************)
(* line.match(/@@\s*-(\d+)(?:,(\d+))?\s*\+(\d+)(?:,(\d+))?\s*@@/)            *)
(***************************************************************************)
At(text, i) == IF i \in 1..Len(text) THEN text[i] ELSE "$"

RECURSIVE SkipSpaces(_, _)
SkipSpaces(text, i) ==
    IF At(text, i) = " " THEN SkipSpaces(text, i + 1) ELSE i

\* the value of the digit run at position i of the line
NumAt(line, i) ==
    line.nums[Cardinality({j \in 1..i : line.text[j] = "#"})]

\* the optional group (?:,(\d+))? at position p: whether it takes part, and
\* the position after it
HasCount(t, p) == At(t, p) = "," /\ At(t, p + 1) = "#"

AfterCount(t, p) == IF HasCount(t, p) THEN p + 2 ELSE p

\* where `-`, `+` and the closing `@@` must stand for a match at position i
OldPos(t, i) == SkipSpaces(t, i + 2)

NewPos(t, i) == SkipSpaces(t, AfterCount(t, OldPos(t, i) + 2))

EndPos(t, i) == SkipSpaces(t, AfterCount(t, NewPos(t, i) + 2))

MatchesAt(t, i) ==
    /\ At(t, i) = "@" /\ At(t, i + 1) = "@"
    /\ At(t, OldPos(t, i)) = "-" /\ At(t, OldPos(t, i) + 1) = "#"
    /\ At(t, NewPos(t, i)) = "+" /\ At(t, NewPos(t, i) + 1) = "#"
    /\ At(t, EndPos(t, i)) = "@" /\ At(t, EndPos(t, i) + 1) = "@"

\* the four groups of the match at position i, a count being <<>> when its
\* group did not take part
Groups(line, i) ==
    [g1 |-> NumAt(line, OldPos(line.text, i) + 1),
     g2 |-> IF HasCount(line.text, OldPos(line.text, i) + 2)
            THEN <<NumAt(line, OldPos(line.text, i) + 3)>> ELSE <<>>,
     g3 |-> NumAt(line, NewPos(line.text, i) + 1),
     g4 |-> IF HasCount(line.text, NewPos(line.text, i) + 2)
            THEN <<NumAt(line, NewPos(line.text, i) + 3)>> ELSE <<>>]

\* the leftmost match: <<>> when the pattern matches nowhere, else <<groups>>
HeaderMatch(line) ==
    LET hits == {i \in 1..Len(line.text) : MatchesAt(line.text, i)}
    IN  IF hits = {} THEN <<>>
        ELSE << Groups(line, CHOOSE i \in hits : \A j \in hits : i <= j) >>

\* parseInt(group) || 1
ParseCountOrOne(group) ==
    IF group = <<>> \/ group[1] = 0 THEN 1 ELSE group[1]

\* oldStart, oldCount, newStart and newCount from the groups of a match
ParseGroups(groups) ==
    [oldStart |-> groups.g1, oldCount |-> ParseCountOrOne(groups.g2),
     newStart |-> groups.g3, newCount |-> ParseCountOrOne(groups.g4)]

\* oldStart, oldCount, newStart and newCount of a line the pattern matches
ParseHeader(line) == ParseGroups(HeaderMatch(line)[1])

\* what the scan parses from the headers of a diff, in the order of the scan
ParsedHeaders(diffOutput) ==
    LET headers == SelectSeq(diffOutput,
                       LAMBDA l : StartsWith(l.text, <<"@", "@">>) /\ HeaderMatch(l) # <<>>)
    IN  [i \in 1..Len(headers) |-> ParseHeader(headers[i])]

(***************************************************************************)
(* extractHunksForTrackedLines                                             *)
(***************************************************************************)
\* the hunk lying inside the original range
hasIntersectionWithin(hunkStartLine, hunkEndLine, originalStartLine, originalEndLine) ==
    hunkStartLine >= originalStartLine /\ hunkEndLine <= originalEndLine

hasIntersection(hunkStartLine, hunkEndLine, originalStartLine, originalEndLine) ==
    ~(hunkEndLine < originalStartLine \/ hunkStartLine > originalEndLine)

hasAffectedLine(hunkStartLine, hunkEndLine, affectedLines) ==
    \E lineNum \in affectedLines :
        lineNum >= hunkStartLine /\ lineNum <= hunkEndLine

\* inRelevantHunk without the test of the affected lines
RelevantOnlyByRange(newStart, newCount, affectedLines, originalStartLine, originalEndLine) ==
    hasIntersection(newStart, newStart + newCount - 1,
                    originalStartLine, originalEndLine)

\* the value of inRelevantHunk for a parsed header
Relevant(newStart, newCount, affectedLines, originalStartLine, originalEndLine) ==
    LET hunkStartLine == newStart
        hunkEndLine == newStart + newCount - 1
    IN  \/ hasIntersection(hunkStartLine, hunkEndLine,
                           originalStartLine, originalEndLine)
        \/ hasAffectedLine(hunkStartLine, hunkEndLine, affectedLines)

\* every line that is not empty is taken as content
IsAnyLine(line) == line.text # <<>>

\* line.startsWith('+') || line.startsWith('-') || line.startsWith(' ')
IsContentLine(line) ==
    \/ StartsWith(line.text, <<"+">>)
    \/ StartsWith(line.text, <<"-">>)
    \/ StartsWith(line.text, <<" ">>)

\* the hunk put before the hunks saved so far
SaveHunkFirst(relevantHunks, hunkHeader, currentHunk) ==
    << <<hunkHeader>> \o currentHunk >> \o relevantHunks

\* relevantHunks.push([hunkHeader, ...currentHunk].join('\n'))
SaveHunk(relevantHunks, hunkHeader, currentHunk) ==
    Append(relevantHunks, <<hunkHeader>> \o currentHunk)

\* the loop's variables after the line `line`, from their values st before it
ExtractStep(st, line, affectedLines, originalStartLine, originalEndLine) ==
    IF StartsWith(line.text, <<"@", "@">>)
    THEN LET saved ==
                 IF st.inRelevantHunk /\ st.currentHunk # <<>>
                 THEN SaveHunk(st.relevantHunks, st.hunkHeader, st.currentHunk)
                 ELSE st.relevantHunks
             match == HeaderMatch(line)
         IN  IF match # <<>>
             THEN LET newStart == ParseGroups(match[1]).newStart
                      newCount == ParseGroups(match[1]).newCount
                      rel == Relevant(newStart, newCount, affectedLines,
                                      originalStartLine, originalEndLine)
                  IN  [relevantHunks |-> saved,
                       currentHunk |-> <<>>,
                       hunkHeader |-> line,
                       inRelevantHunk |-> rel,
                       debugInfo |-> Append(st.debugInfo,
                           Line(<<"Hunk: lines ", "#", "-", "#", ", relevant: ",
                                  IF rel THEN "true" ELSE "false">>,
                                <<newStart, newStart + newCount - 1>>))]
             ELSE [st EXCEPT !.relevantHunks = saved]
    ELSE IF st.inRelevantHunk /\ IsContentLine(line)
    THEN [st EXCEPT !.currentHunk = Append(st.currentHunk, line)]
    ELSE st

RECURSIVE ExtractLoop(_, _, _, _, _)
ExtractLoop(st, lines, affectedLines, originalStartLine, originalEndLine) ==
    IF lines = <<>> THEN st
    ELSE ExtractLoop(ExtractStep(st, Head(lines), affectedLines,
                                 originalStartLine, originalEndLine),
                     Tail(lines), affectedLines, originalStartLine, originalEndLine)

\* nothing pushed when no hunk was relevant
HunkDebugTextEmpty(diffOutput, affectedLines, originalStartLine, originalEndLine, debugInfo) == <<>>

\* the text pushed when no hunk was relevant
HunkDebugText(diffOutput, affectedLines, originalStartLine, originalEndLine, debugInfo) ==
    << Line(<<"#", " DEBUG: Hunk analysis for lines ", "#", "-", "#", ":">>,
            <<originalStartLine, originalEndLine>>),
       Line(<<"#", " Affected lines: ">> \o [i \in 1..Len(affectedLines) |-> "#"],
            affectedLines) >>
    \o [i \in 1..Len(debugInfo) |->
           Line(<<"#", " ">> \o debugInfo[i].text, debugInfo[i].nums)]
    \o << EmptyLine,
          TextLine(<<"#", " Full diff:">>) >>
    \o diffOutput

\* the returned array: each element is a text (a sequence of lines);
\* affectedLines is the array in ascending order
extractHunksForTrackedLines(diffOutput, affectedLines, originalStartLine, originalEndLine) ==
    LET st0 == [relevantHunks |-> <<>>, currentHunk |-> <<>>,
                hunkHeader |-> EmptyLine, inRelevantHunk |-> FALSE,
                debugInfo |-> <<>>]
        st == ExtractLoop(st0, diffOutput, Range(affectedLines),
                          originalStartLine, originalEndLine)
        relevantHunks ==
            IF st.inRelevantHunk /\ st.currentHunk # <<>>
            THEN SaveHunk(st.relevantHunks, st.hunkHeader, st.currentHunk)
            ELSE st.relevantHunks
    IN  IF relevantHunks = <<>>
        THEN << HunkDebugText(diffOutput, affectedLines, originalStartLine,
                              originalEndLine, st.debugInfo) >>
        ELSE relevantHunks

(***************************************************************************)
(* The hunk extraction on its own: the inputs are drawn in HunkInit and    *)
(* ExtractHunks applies extractHunksForTrackedLines to them.               *)
(***************************************************************************)
HunkPool ==
    { Hunk(10, <<3>>, 12, <<5>>, <<" ", "-", "-", "+", "+", "+", "+">>),
      Hunk(10, <<>>, 12, <<>>, <<"-", "+">>),
      Hunk(18, <<2>>, 20, <<0>>, <<"-", "-">>),
      Hunk(19, <<1>>, 21, <<2>>, <<"-", "\\", "+", "+", "\\">>),
      Hunk(30, <<0>>, 33, <<1>>, <<"+">>) }

\* the hunks of one file's diff: at most n of them, in ascending order
HunkLists(n) ==
    UNION { { hs \in [1..k -> HunkPool] :
                \A i \in 1..(k - 1) : hs[i].newStart < hs[i + 1].newStart }
            : k \in 0..n }

TargetStarts == {11, 14, 17, 20}

\* the file the diff given to the hunk extraction is of
HunkPath == <<"src", "/", "util.ts">>

AffectedPool == {12, 14, 21}

HunkIdle ==
    /\ hpc = "idle"
    /\ hDiff = <<>>
    /\ hAffected = <<>>
    /\ hStart = 0
    /\ hEnd = 0
    /\ hOut = <<>>
    /\ hParsed = <<>>

HunkInputs ==
    /\ hpc = "in"
    /\ hDiff \in HunkLists(MaxHunks) \ {<<>>}
    /\ hAffected \in {SortedKeys(S) : S \in SUBSET AffectedPool}
    /\ hStart \in TargetStarts
    /\ hEnd \in hStart..(hStart + MaxLines)
    /\ hOut = <<>>
    /\ hParsed = <<>>

ExtractHunks ==
    /\ hpc = "in"
    /\ hOut' = extractHunksForTrackedLines(DiffText(hDiff, HunkPath), hAffected, hStart, hEnd)
    /\ hParsed' = ParsedHeaders(DiffText(hDiff, HunkPath))
    /\ hpc' = "out"
    /\ UNCHANGED <<hDiff, hAffected, hStart, hEnd>>

(***************************************************************************)
(* The repository the engine runs against.                                 *)
(***************************************************************************)
\* analyzeSelection's filePath and the path relative to the git root
AbsolutePath == <<"/repo", "/", "src", "/", "util.ts">>
RelativePath == <<"src", "/", "util.ts">>
WorkingDir == <<"/repo">>

\* the paths a commit may have modified, in the order git lists them
PathPool ==
    << <<"README.md">>,
       <<"lib", "/", "old_", "util.ts">>,
       <<"lib", "/", "util.ts">>,
       <<"src", "/", "util.ts">> >>

\* the modified-file lists of at most n paths
FileLists(n) ==
    { [i \in 1..Len(ks) |-> PathPool[ks[i]]] :
        ks \in { SortedKeys(S) : S \in { T \in SUBSET DOMAIN PathPool :
                                           Cardinality(T) <= n } } }

\* the dates a commit may carry
Dates == {1, 2}

\* the changes a commit may have made to one file
EngineDiffs ==
    { << Hunk(FirstLine, <<1>>, FirstLine, <<2>>, <<"-", "+", "+">>),
         Hunk(40, <<1>>, 41, <<1>>, <<"-", "+">>) >>,
      << Hunk(40, <<1>>, 41, <<1>>, <<"-", "+">>) >> }

Selections == { <<FirstLine, e>> : e \in FirstLine..(FirstLine + MaxLines - 1) }

\* the commit of each line of the selection, as git blame reports it
Attributions(n) == [1..n -> Hashes]

BlameOutputs(n) == { PorcelainLines(attr) : attr \in Attributions(n) }

(***************************************************************************)
(* Texts the engine builds.                                                *)
(***************************************************************************)
Query(cmd, commit, path) == [cmd |-> cmd, commit |-> commit, path |-> path]

\* filePath.split('/').pop()
RECURSIVE LastSegment(_)
LastSegment(path) ==
    IF \E i \in DOMAIN path : path[i] = "/"
    THEN LastSegment(Tail(path))
    ELSE path

ShowCommand(commitHash, path) ==
    <<"git show ", commitHash, " --format= -- ">> \o path

\* the keys without the filter
AffectedLinesAll(map, commitHash) == SortedKeys(DOMAIN map)

\* Object.keys(lineCommitMap).map(Number).filter(...)
AffectedLinesOf(map, commitHash) ==
    SortedKeys({l \in DOMAIN map : map[l] = commitHash})

NumberList(ns) == Line([i \in 1..Len(ns) |-> "#"], ns)

NotTouchedText(start, end) ==
    << Line(<<"#", " This commit did not modify the selected lines (", "#", "-", "#", ")">>,
            <<start, end>>) >>

NoChangesText(path, affectedLines, command, workingDir) ==
    << TextLine(<<"#", " No changes found for ">> \o path \o <<" in this commit">>),
       Line(<<"#", " Affected lines: ">> \o NumberList(affectedLines).text,
            affectedLines),
       TextLine(<<"#", " Git command: ">> \o command),
       TextLine(<<"#", " Working dir: ">> \o workingDir) >>

ErrorText(commitHash, path) ==
    << TextLine(<<"#", " Error retrieving line evolution diff: ", "error">>),
       TextLine(<<"#", " Commit: ", commitHash>>),
       TextLine(<<"#", " File: ">> \o path) >>

\* relevantHunks.join('\n\n')
RECURSIVE JoinHunks(_)
JoinHunks(hunks) ==
    IF hunks = <<>> THEN <<>>
    ELSE IF Len(hunks) = 1 THEN hunks[1]
    ELSE hunks[1] \o <<EmptyLine>> \o JoinHunks(Tail(hunks))

\* the tail of getLineEvolutionDiff once fullDiff is not empty
RelevantDiffText(fullDiff, affectedLines, start, end) ==
    JoinHunks(extractHunksForTrackedLines(fullDiff, affectedLines, start, end))

CommitInfo(metaParts, diff, path) ==
    [hash |-> metaParts[1], author |-> metaParts[2], date |-> metaParts[3],
     message |-> metaParts[4], diff |-> diff, filename |-> LastSegment(path)]

\* array.sort((a, b) => new Date(b.date).getTime() - new Date(a.date).getTime())
\* on pairs <<item, date>>: most recent first, equal dates keep their order
RECURSIVE InsertByDate(_, _)
InsertByDate(sorted, e) ==
    IF sorted = <<>> THEN <<e>>
    ELSE IF Head(sorted)[2] >= e[2]
         THEN <<Head(sorted)>> \o InsertByDate(Tail(sorted), e)
         ELSE <<e>> \o sorted

RECURSIVE SortAcc(_, _)
SortAcc(pairs, acc) ==
    IF pairs = <<>> THEN acc
    ELSE SortAcc(Tail(pairs), InsertByDate(acc, Head(pairs)))

\* the array left as it was pushed
NoSort(items, dates) == items

SortByDateDescending(items, dates) ==
    LET sorted == SortAcc([i \in 1..Len(items) |-> <<items[i], dates[i]>>], <<>>)
    IN  [i \in 1..Len(sorted) |-> sorted[i][1]]

SortCommitInfos(infos) ==
    SortByDateDescending(infos, [i \in 1..Len(infos) |-> infos[i].date])

\* the pull request gh reports for a number
PullRequestInfo(number) ==
    [number |-> number, createdAt |-> number,
     linkedIssues |-> IF number = 2 THEN <<7>> ELSE <<>>]

PullRequestNumbers == {1, 2}

\* pullRequests.filter((pr, index, self) => index === self.findIndex(...))
RECURSIVE UniquePRsAcc(_, _)
UniquePRsAcc(prs, acc) ==
    IF prs = <<>> THEN acc
    ELSE UniquePRsAcc(Tail(prs),
             IF \E i \in DOMAIN acc : acc[i].number = Head(prs).number
             THEN acc ELSE Append(acc, Head(prs)))

SortPullRequests(prs) ==
    LET uniquePRs == UniquePRsAcc(prs, <<>>)
    IN  SortByDateDescending(uniquePRs,
            [i \in 1..Len(uniquePRs) |-> uniquePRs[i].createdAt])

\* the timeline of the commits alone
createTimelineOfCommits(commitList, prList) ==
    SortByDateDescending(
        [i \in 1..Len(commitList) |->
            [type |-> "commit", date |-> commitList[i].date, data |-> commitList[i]]],
        [i \in 1..Len(commitList) |-> commitList[i].date])

\* createTimeline
createTimeline(commitList, prList) ==
    LET timeline ==
            [i \in 1..Len(commitList) |->
                [type |-> "commit", date |-> commitList[i].date,
                 data |-> commitList[i]]]
            \o [i \in 1..Len(prList) |->
                [type |-> "pullRequest", date |-> prList[i].createdAt,
                 data |-> prList[i]]]
    IN  SortByDateDescending(timeline, [i \in 1..Len(timeline) |-> timeline[i].date])

(***************************************************************************)
(* analyzeSelection.  Each action is one external invocation together     *)
(* with the code that runs until the next one.                             *)
(***************************************************************************)
EmptyResult == [commits |-> <<>>, pullRequests |-> <<>>, timeline |-> <<>>]

\* what a call ends with: where it ended, the unique commits, the value it
\* resolved with and the message it rejected with
Outcome(at, uniqueCommits, value, message) ==
    [pc |-> at, commits |-> uniqueCommits, result |-> value, errorMessage |-> message]

\* the run of the analyzeSelection command at the position `at`: what its
\* checks gave, at which position cancellation was requested, whether the
\* results were shown and which branch of handleError was taken
CommandAt(at) ==
    [at |-> at, deps |-> FALSE, key |-> FALSE, selection |-> "none",
     cancelAt |-> "none", shown |-> FALSE, handled |-> "none"]

\* a single call is running
TwinIdle ==
    /\ run = 0
    /\ log = {}
    /\ first = Outcome("none", <<>>, EmptyResult, <<>>)
    /\ commandRun = CommandAt("none")

EngineIdle ==
    /\ pc = "idle"
    /\ repoState = "tracked"
    /\ startLine = 0
    /\ endLine = 0
    /\ blameOutput = <<>>
    /\ lineCommitMap = [l \in {} |-> ZeroHash]
    /\ commits = <<>>
    /\ idx = 0
    /\ parts = <<>>
    /\ fileList = <<>>
    /\ possiblePaths = <<>>
    /\ candIdx = 0
    /\ gitCommand = <<>>
    /\ commitInfos = <<>>
    /\ pullRequests = <<>>
    /\ prIdx = 0
    /\ queries = <<>>
    /\ attempts = <<>>
    /\ failed = {}
    /\ result = EmptyResult
    /\ errorMessage = <<>>
    /\ TwinIdle

\* analyzeSelection is called: its arguments and the state of the repository
EngineStart ==
    /\ pc = "start"
    /\ repoState \in {"notrepo", "untracked", "missing", "tracked"}
    /\ \E sel \in Selections : startLine = sel[1] /\ endLine = sel[2]
    /\ blameOutput = <<>>
    /\ lineCommitMap = [l \in {} |-> ZeroHash]
    /\ commits = <<>>
    /\ idx = 0
    /\ parts = <<>>
    /\ fileList = <<>>
    /\ possiblePaths = <<>>
    /\ candIdx = 0
    /\ gitCommand = <<>>
    /\ commitInfos = <<>>
    /\ pullRequests = <<>>
    /\ prIdx = 0
    /\ queries = <<>>
    /\ attempts = <<>>
    /\ failed = {}
    /\ result = EmptyResult
    /\ errorMessage = <<>>
    /\ HunkIdle

Init == EngineStart /\ TwinIdle

\* an invocation with what it answered
Attempt(cmd, commit, path, ok, out) ==
    [cmd |-> cmd, commit |-> commit, path |-> path, ok |-> ok, out |-> out]

\* the invocation a step made whose answer the repository and the tools
\* decide, with that answer; none for a step without such an invocation
\* (what rev-parse and ls-files answer is fixed by repoState)
TwinRecord ==
    IF queries' = queries \/ pc \in {"start", "lsfiles"} THEN {}
    ELSE IF pc = "blame"
    THEN {Attempt("blame", None, RelativePath, pc' # "failed", blameOutput')}
    ELSE {attempts'[Len(attempts')]}

\* the answers drawn when analyzeSelection is called twice: a commit modified
\* at most one file, and gh finds a pull request for every commit
TwiceAnswer(t) ==
    /\ (t.cmd = "name-only" /\ t.ok) => t.out \in FileLists(1)
    /\ t.cmd = "gh-pr-list" => (t.ok /\ t.out # <<>>)

\* two calls in a row: the first one records what each invocation answered,
\* the second one gets the recorded answer for every invocation the first
\* one made
TwinStep ==
    /\ run # 0 => \A t \in TwinRecord : TwiceAnswer(t)
    /\ log' = IF run = 1 THEN log \cup TwinRecord ELSE log
    /\ run = 2 =>
         \A l \in log : \A t \in TwinRecord :
            (l.cmd = t.cmd /\ l.commit = t.commit /\ l.path = t.path) => l = t
    /\ commandRun.at \in {"none", "analysis"}
    /\ UNCHANGED <<run, first, commandRun>>

\* the catch of analyzeSelection: rethrow with the prefix
Reject(message) ==
    /\ pc' = "failed"
    /\ errorMessage' = <<"Git analysis failed: ">> \o message

\* findGitRoot returns a root unless no directory above the file is a repository
FoundGitRoot(state) == state # "notrepo"

\* the pre-flight check passing whatever the index holds
LsFilesAlwaysSucceeds(state) == TRUE

\* `git ls-files --error-unmatch` exits with 0
LsFilesSucceeds(state) == state = "tracked"

\* the file taken to be on disk whatever the file system holds
ExistsOnDiskAlways(state) == TRUE

\* fs.existsSync(filePath)
ExistsOnDisk(state) == state \in {"tracked", "untracked"}

FindGitRoot ==
    /\ pc = "start"
    /\ queries' = Append(queries, Query("rev-parse", None, <<>>))
    /\ IF FoundGitRoot(repoState)
       THEN pc' = "lsfiles" /\ UNCHANGED errorMessage
       ELSE Reject(<<"N", "ot ", "a git repository", ". The file ">> \o AbsolutePath
                   \o <<" is ", "n", "ot ", "in ", "a git repository", ".">>)
    /\ UNCHANGED <<repoState, startLine, endLine, blameOutput, lineCommitMap,
                   commits, idx, parts, fileList, possiblePaths, candIdx,
                   gitCommand, commitInfos, pullRequests, prIdx, attempts,
                   failed, result, hunkVars>>
    /\ TwinStep

CheckTracked ==
    /\ pc = "lsfiles"
    /\ queries' = Append(queries, Query("ls-files", None, RelativePath))
    /\ IF LsFilesSucceeds(repoState)
       THEN pc' = "blame" /\ UNCHANGED errorMessage
       ELSE IF ExistsOnDisk(repoState)
       THEN Reject(<<"File ">> \o RelativePath
                   \o <<" is not tracked by git. Please add it with: git add ">>
                   \o RelativePath)
       ELSE Reject(<<"File ">> \o RelativePath \o <<" does not exist.">>)
    /\ UNCHANGED <<repoState, startLine, endLine, blameOutput, lineCommitMap,
                   commits, idx, parts, fileList, possiblePaths, candIdx,
                   gitCommand, commitInfos, pullRequests, prIdx, attempts,
                   failed, result, hunkVars>>
    /\ TwinStep

\* runGitBlame throws: the range is not in the file, git cannot be run
BlameFails ==
    /\ pc = "blame"
    /\ queries' = Append(queries, Query("blame", None, RelativePath))
    /\ Reject(<<"blame failed">>)
    /\ UNCHANGED <<repoState, startLine, endLine, blameOutput, lineCommitMap,
                   commits, idx, parts, fileList, possiblePaths, candIdx,
                   gitCommand, commitInfos, pullRequests, prIdx, attempts,
                   failed, result, hunkVars>>
    /\ TwinStep

\* runGitBlame returns; the map and the unique commits are computed
RunGitBlame ==
    /\ pc = "blame"
    /\ queries' = Append(queries, Query("blame", None, RelativePath))
    /\ \E out \in BlameOutputs(endLine - startLine + 1) :
         /\ blameOutput' = out
         /\ lineCommitMap' = parseBlameWithLineTracking(out, startLine)
         /\ commits' = UniqueCommits(parseBlameWithLineTracking(out, startLine))
    /\ idx' = 1
    /\ pc' = IF commits' = <<>> THEN "done" ELSE "meta"
    /\ UNCHANGED <<repoState, startLine, endLine, parts, fileList, possiblePaths,
                   candIdx, gitCommand, commitInfos, pullRequests, prIdx,
                   attempts, failed, result, errorMessage, hunkVars>>
    /\ TwinStep


(***************************************************************************)
(* getCommitDetailsWithLineTracking and getLineEvolutionDiff               *)
(***************************************************************************)
\* what an invocation gives: it throws (ok is FALSE), or it returns stdout
Response(ok, out) == [ok |-> ok, out |-> out]

Failure == Response(FALSE, <<>>)

\* stdout.trim().split('|') of the metadata query
MetaResponses(commitHash) ==
    {Failure, Response(TRUE, <<"garbage">>)}
    \cup (IF commitHash = ZeroHash THEN {}
          ELSE { Response(TRUE, <<commitHash, "author", d, "subject">>) : d \in Dates })

\* `git show <commit> --format="" -- <path>`: it throws, or prints nothing,
\* or prints the change the commit made to the file at `path`
DiffResponses(path) ==
    {Failure, Response(TRUE, <<>>)}
    \cup { Response(TRUE, DiffText(d, path)) : d \in EngineDiffs }

FileListResponses == {Failure} \cup { Response(TRUE, fs) : fs \in FileLists(MaxFiles) }

\* parts.length >= 4
WellFormed(metaParts) == Len(metaParts) >= 4

\* !fullDiff.trim()
IsEmptyDiff(text) == text = <<>>

\* the entry is pushed and the resolution of the commit goes on
FinishCommitEarly(infos, failure) ==
    /\ commitInfos' = infos
    /\ failed' = IF failure THEN failed \cup {commits[idx]} ELSE failed
    /\ UNCHANGED <<pc, idx, prIdx, parts, fileList, possiblePaths, candIdx, gitCommand>>

\* the iteration ends as it would were a failure not caught
FinishCommitOrAbort(infos, failure) ==
    /\ idx' = idx + 1
    /\ commitInfos' = IF idx = Len(commits) THEN SortCommitInfos(infos) ELSE infos
    /\ pc' = IF failure THEN "failed" ELSE IF idx = Len(commits) THEN "prs" ELSE "meta"
    /\ prIdx' = IF idx = Len(commits) THEN 1 ELSE prIdx
    /\ failed' = IF failure THEN failed \cup {commits[idx]} ELSE failed
    /\ parts' = <<>>
    /\ fileList' = <<>>
    /\ possiblePaths' = <<>>
    /\ candIdx' = 0
    /\ gitCommand' = <<>>

\* the orders a sort that is not stable may leave the entries in
DateSortedOrders(infos) ==
    { s \in [1..Len(infos) -> Range(infos)] :
        /\ Range(s) = Range(infos)
        /\ \A i, j \in 1..Len(infos) : i < j => s[i].date >= s[j].date }

\* the iteration ends, the sort after the last one not being stable
FinishCommitUnstable(infos, failure) ==
    /\ idx' = idx + 1
    /\ commitInfos' \in (IF idx = Len(commits) THEN DateSortedOrders(infos) ELSE {infos})
    /\ pc' = IF idx = Len(commits) THEN "prs" ELSE "meta"
    /\ prIdx' = IF idx = Len(commits) THEN 1 ELSE prIdx
    /\ failed' = IF failure THEN failed \cup {commits[idx]} ELSE failed
    /\ parts' = <<>>
    /\ fileList' = <<>>
    /\ possiblePaths' = <<>>
    /\ candIdx' = 0
    /\ gitCommand' = <<>>

\* the iteration ends: the next commit, or after the last one the array is
\* sorted and returned
FinishCommit(infos, failure) ==
    /\ idx' = idx + 1
    /\ commitInfos' = IF idx = Len(commits) THEN SortCommitInfos(infos) ELSE infos
    /\ pc' = IF idx = Len(commits) THEN "prs" ELSE "meta"
    /\ prIdx' = IF idx = Len(commits) THEN 1 ELSE prIdx
    /\ failed' = IF failure THEN failed \cup {commits[idx]} ELSE failed
    /\ parts' = <<>>
    /\ fileList' = <<>>
    /\ possiblePaths' = <<>>
    /\ candIdx' = 0
    /\ gitCommand' = <<>>

\* the entry pushed for the commit being resolved
PushCommitInfo(diff, failure) ==
    FinishCommit(Append(commitInfos, CommitInfo(parts, diff, RelativePath)), failure)

\* the metadata query and, when it throws or its output has fewer than four
\* parts, the end of the iteration with nothing pushed
GetCommitMeta ==
    /\ pc = "meta"
    /\ queries' = Append(queries, Query("show-meta", commits[idx], <<>>))
    /\ \E r \in MetaResponses(commits[idx]) :
         /\ attempts' = << Attempt("show-meta", commits[idx], <<>>, r.ok, r.out) >>
         /\ IF r.ok /\ WellFormed(r.out)
            THEN /\ parts' = r.out
                 /\ pc' = "direct"
                 /\ UNCHANGED <<idx, fileList, possiblePaths, candIdx, gitCommand,
                                commitInfos, prIdx, failed>>
            ELSE FinishCommit(commitInfos, TRUE)
    /\ UNCHANGED <<repoState, startLine, endLine, blameOutput, lineCommitMap,
                   commits, pullRequests, result, errorMessage, hunkVars>>
    /\ TwinStep

\* the diff query for the caller's path
DirectDiff ==
    /\ pc = "direct"
    /\ LET commitHash == commits[idx]
           affectedLines == AffectedLinesOf(lineCommitMap, commitHash)
       IN  IF affectedLines = <<>>
           THEN /\ PushCommitInfo(NotTouchedText(startLine, endLine), FALSE)
                /\ UNCHANGED <<queries, attempts>>
           ELSE /\ queries' = Append(queries, Query("show-diff", commitHash, RelativePath))
                /\ \E r \in DiffResponses(RelativePath) :
                     /\ attempts' = Append(attempts,
                            Attempt("show-diff", commitHash, RelativePath, r.ok, r.out))
                     /\ IF ~r.ok
                        THEN PushCommitInfo(ErrorText(commitHash, RelativePath), TRUE)
                        ELSE IF IsEmptyDiff(r.out)
                        THEN /\ pc' = "list"
                             /\ gitCommand' = ShowCommand(commitHash, RelativePath)
                             /\ UNCHANGED <<idx, parts, fileList, possiblePaths,
                                            candIdx, commitInfos, prIdx, failed>>
                        ELSE PushCommitInfo(RelevantDiffText(r.out, affectedLines,
                                                             startLine, endLine), FALSE)
    /\ UNCHANGED <<repoState, startLine, endLine, blameOutput, lineCommitMap,
                   commits, pullRequests, result, errorMessage, hunkVars>>
    /\ TwinStep

\* modifiedFiles.trim().split('\n').filter(f => f.endsWith(fileName || ''))
PossiblePaths(modifiedFiles, path) ==
    SelectSeq(modifiedFiles, LAMBDA f : EndsWith(f, LastSegment(path)))

\* the list of the files the commit modified
ListModifiedFiles ==
    /\ pc = "list"
    /\ queries' = Append(queries, Query("name-only", commits[idx], <<>>))
    /\ \E r \in FileListResponses :
         /\ attempts' = Append(attempts,
                Attempt("name-only", commits[idx], <<>>, r.ok, r.out))
         /\ IF ~r.ok
            THEN PushCommitInfo(ErrorText(commits[idx], RelativePath), TRUE)
            ELSE /\ fileList' = r.out
                 /\ possiblePaths' = PossiblePaths(r.out, RelativePath)
                 /\ candIdx' = 1
                 /\ pc' = "cand"
                 /\ UNCHANGED <<idx, parts, gitCommand, commitInfos, prIdx, failed>>
    /\ UNCHANGED <<repoState, startLine, endLine, blameOutput, lineCommitMap,
                   commits, pullRequests, result, errorMessage, hunkVars>>
    /\ TwinStep

\* the position of the last path of the loop that is queried, 0 when none is
LastCandidate(paths, from, path) ==
    LET ks == {k \in from..Len(paths) : paths[k] # <<>> /\ paths[k] # path}
    IN  IF ks = {} THEN 0 ELSE CHOOSE k \in ks : \A j \in ks : j <= k

\* the position of the next path of the loop that is queried, 0 when none is
NextCandidate(paths, from, path) ==
    LET ks == {k \in from..Len(paths) : paths[k] # <<>> /\ paths[k] # path}
    IN  IF ks = {} THEN 0 ELSE CHOOSE k \in ks : \A j \in ks : k <= j

\* one iteration of the loop over possiblePaths that queries a path
TryAlternativePath ==
    /\ pc = "cand"
    /\ NextCandidate(possiblePaths, candIdx, RelativePath) # 0
    /\ LET k == NextCandidate(possiblePaths, candIdx, RelativePath)
           possiblePath == possiblePaths[k]
           commitHash == commits[idx]
           affectedLines == AffectedLinesOf(lineCommitMap, commitHash)
       IN  /\ queries' = Append(queries, Query("show-diff", commitHash, possiblePath))
           /\ \E r \in DiffResponses(possiblePath) :
                /\ attempts' = Append(attempts,
                       Attempt("show-diff", commitHash, possiblePath, r.ok, r.out))
                /\ IF ~r.ok
                   THEN PushCommitInfo(ErrorText(commitHash, RelativePath), TRUE)
                   ELSE IF IsEmptyDiff(r.out)
                   THEN /\ candIdx' = k + 1
                        /\ gitCommand' = ShowCommand(commitHash, possiblePath)
                        /\ UNCHANGED <<pc, idx, parts, fileList, possiblePaths,
                                       commitInfos, prIdx, failed>>
                   ELSE PushCommitInfo(RelevantDiffText(r.out, affectedLines,
                                                        startLine, endLine), FALSE)
    /\ UNCHANGED <<repoState, startLine, endLine, blameOutput, lineCommitMap,
                   commits, pullRequests, result, errorMessage, hunkVars>>
    /\ TwinStep

\* no path is left to query and fullDiff is still empty
NoChangesFound ==
    /\ pc = "cand"
    /\ NextCandidate(possiblePaths, candIdx, RelativePath) = 0
    /\ PushCommitInfo(NoChangesText(RelativePath,
                                    AffectedLinesOf(lineCommitMap, commits[idx]),
                                    gitCommand, WorkingDir), FALSE)
    /\ UNCHANGED <<repoState, startLine, endLine, blameOutput, lineCommitMap,
                   commits, pullRequests, queries, attempts, result,
                   errorMessage, hunkVars>>
    /\ TwinStep

(***************************************************************************)
(* findPullRequests, createTimeline and the return of analyzeSelection     *)
(***************************************************************************)
\* gh pr list: it throws, or it prints the merged pull request of the commit
PullRequestResponses ==
    {Failure, Response(TRUE, <<>>)}
    \cup { Response(TRUE, <<PullRequestInfo(n)>>) : n \in PullRequestNumbers }

\* the queries getPullRequestComments and getLinkedIssues issue for prs[0]
PullRequestDetailQueries(prs) ==
    IF prs = <<>> THEN <<>>
    ELSE << Query("gh-pr-view", None, <<>>) >>
         \o [i \in 1..Len(prs[1].linkedIssues) |-> Query("gh-issue-view", None, <<>>)]

\* one iteration of the loop of findPullRequests; after the last one the
\* pull requests are deduplicated and sorted, the timeline is built and
\* analyzeSelection returns
FindPullRequests ==
    /\ pc = "prs"
    /\ \E r \in PullRequestResponses :
         LET found == IF r.ok THEN pullRequests \o r.out ELSE pullRequests
             last == prIdx = Len(commits)
         IN  /\ queries' = Append(queries, Query("gh-pr-list", commits[prIdx], <<>>))
                             \o (IF r.ok THEN PullRequestDetailQueries(r.out) ELSE <<>>)
             /\ prIdx' = prIdx + 1
             /\ pullRequests' = IF last THEN SortPullRequests(found) ELSE found
             /\ pc' = IF last THEN "done" ELSE "prs"
             /\ result' = IF last
                          THEN [commits |-> commitInfos,
                                pullRequests |-> SortPullRequests(found),
                                timeline |-> createTimeline(commitInfos,
                                                            SortPullRequests(found))]
                          ELSE result
             /\ attempts' = << Attempt("gh-pr-list", commits[prIdx], <<>>, r.ok, r.out) >>
    /\ UNCHANGED <<repoState, startLine, endLine, blameOutput, lineCommitMap,
                   commits, idx, parts, fileList, possiblePaths, candIdx,
                   gitCommand, commitInfos, failed, errorMessage, hunkVars>>
    /\ TwinStep

Next ==
    \/ FindGitRoot
    \/ CheckTracked
    \/ BlameFails
    \/ RunGitBlame
    \/ GetCommitMeta
    \/ DirectDiff
    \/ ListModifiedFiles
    \/ TryAlternativePath
    \/ NoChangesFound
    \/ FindPullRequests

Spec == Init /\ [][Next]_vars

\* analyzeSelection called twice with the same arguments on a repository
\* and tools that answer the second call as they answered the first; the
\* selection has two lines, so that there is an order of commits to keep
TwiceInit ==
    /\ EngineStart
    /\ endLine = startLine + 1
    /\ run = 1
    /\ log = {}
    /\ first = Outcome("none", <<>>, EmptyResult, <<>>)
    /\ commandRun = CommandAt("none")

\* the first call has ended and the second one begins
CallAgain ==
    /\ run = 1
    /\ pc \in {"done", "failed"}
    /\ run' = 2
    /\ first' = Outcome(pc, commits, result, errorMessage)
    /\ pc' = "start"
    /\ blameOutput' = <<>>
    /\ lineCommitMap' = [l \in {} |-> ZeroHash]
    /\ commits' = <<>>
    /\ idx' = 0
    /\ parts' = <<>>
    /\ fileList' = <<>>
    /\ possiblePaths' = <<>>
    /\ candIdx' = 0
    /\ gitCommand' = <<>>
    /\ commitInfos' = <<>>
    /\ pullRequests' = <<>>
    /\ prIdx' = 0
    /\ queries' = <<>>
    /\ attempts' = <<>>
    /\ failed' = {}
    /\ result' = EmptyResult
    /\ errorMessage' = <<>>
    /\ UNCHANGED <<repoState, startLine, endLine, log, commandRun, hunkVars>>

TwiceNext ==
    \/ FindGitRoot
    \/ CheckTracked
    \/ BlameFails
    \/ RunGitBlame
    \/ GetCommitMeta
    \/ DirectDiff
    \/ ListModifiedFiles
    \/ TryAlternativePath
    \/ NoChangesFound
    \/ FindPullRequests
    \/ CallAgain

SpecTwice == TwiceInit /\ [][TwiceNext]_vars

(***************************************************************************)
(* The analyzeSelection command of extension.ts, which calls the engine,   *)
(* and ErrorHandler.handleError.  The engine runs while the command is at  *)
(* "analysis"; the user may cancel the progress notification at any time   *)
(* the notification is up.                                                 *)
(***************************************************************************)
\* errorMessage.includes(...) in the order of handleError's tests; the
\* branch is named after the button of the message it shows
handleError(message) ==
    IF Contains(message, <<"n", "ot ", "a git repository">>)
    THEN "Open Git Repository"
    ELSE IF \/ Contains(message, <<"gh: command not found">>)
            \/ Contains(message, <<"GitHub CLI">>)
    THEN "Installation Guide"
    ELSE IF \/ Contains(message, <<"API key">>)
            \/ Contains(message, <<"authentication">>)
            \/ Contains(message, <<"Gemini">>)
    THEN "Configure Gemini API Key"
    ELSE IF Contains(message, <<"rate limit">>)
    THEN "Retry in 1 minute"
    ELSE IF Contains(message, <<"network">>) \/ Contains(message, <<"timeout">>)
    THEN "Retry"
    ELSE "View Details"

\* the command is invoked; the engine's arguments are those the command
\* will pass, and the tools answer as in SpecTwice
CommandInit ==
    /\ EngineStart
    /\ endLine = startLine + 1
    /\ run = 3
    /\ log = {}
    /\ first = Outcome("none", <<>>, EmptyResult, <<>>)
    /\ commandRun = CommandAt("deps")

\* the selection taken whatever the editor holds
AnySelection(selection) == TRUE

\* editor is defined and !selection.isEmpty
SelectionUsable(selection) == selection = "block"

ValidateDependencies ==
    /\ commandRun.at = "deps"
    /\ \E dependenciesValid \in BOOLEAN :
         commandRun' = [commandRun EXCEPT
                           !.deps = dependenciesValid,
                           !.at = IF dependenciesValid THEN "key" ELSE "end"]
    /\ UNCHANGED <<engineVars, hunkVars, run, log, first>>

\* hasApiKey, and when there is none the prompt and the second hasApiKey
CheckApiKey ==
    /\ commandRun.at = "key"
    /\ \E hasApiKey, configure, hasApiKeyAfterConfig \in BOOLEAN :
         LET present == hasApiKey \/ (configure /\ hasApiKeyAfterConfig)
         IN  commandRun' = [commandRun EXCEPT
                               !.key = present,
                               !.at = IF present THEN "editor" ELSE "end"]
    /\ UNCHANGED <<engineVars, hunkVars, run, log, first>>

\* the editor and its selection; with a block selected the progress
\* notification opens and analyzeSelection is called
GetSelection ==
    /\ commandRun.at = "editor"
    /\ \E selection \in {"no editor", "empty", "block"} :
         commandRun' = [commandRun EXCEPT
                           !.selection = selection,
                           !.at = IF SelectionUsable(selection)
                                  THEN "analysis" ELSE "end"]
    /\ UNCHANGED <<engineVars, hunkVars, run, log, first>>

\* the user presses Cancel on the notification
RequestCancel ==
    /\ commandRun.at \in {"analysis", "summary", "reveal"}
    /\ commandRun.cancelAt = "none"
    /\ commandRun' = [commandRun EXCEPT !.cancelAt = commandRun.at]
    /\ UNCHANGED <<engineVars, hunkVars, run, log, first>>

\* an invocation made while a commit is resolved never returns: execAsync
\* is given no timeout, so its promise stays pending
InvocationHangs ==
    /\ commandRun.at = "analysis"
    /\ pc \in {"meta", "direct", "list", "cand"}
    /\ pc' = "hung"
    /\ UNCHANGED <<repoState, startLine, endLine, blameOutput, lineCommitMap,
                   commits, idx, parts, fileList, possiblePaths, candIdx,
                   gitCommand, commitInfos, pullRequests, prIdx, queries,
                   attempts, failed, result, errorMessage, hunkVars, twinVars>>

\* the await of analyzeSelection settles: the token is tested, or the
\* catch gives the error to handleError
AnalysisEnds ==
    /\ commandRun.at = "analysis"
    /\ pc \in {"done", "failed"}
    /\ commandRun' =
         IF pc = "failed"
         THEN [commandRun EXCEPT !.at = "end", !.handled = handleError(errorMessage)]
         ELSE IF commandRun.cancelAt # "none"
         THEN [commandRun EXCEPT !.at = "end"]
         ELSE [commandRun EXCEPT !.at = "summary"]
    /\ UNCHANGED <<engineVars, hunkVars, run, log, first>>

\* the await of generateSummary settles: the token is tested, or the catch
\* gives the error to handleError
GenerateSummary ==
    /\ commandRun.at = "summary"
    /\ \E failure \in { <<>>,
                        <<"Invalid ", "Gemini", " ", "API key", " for model">>,
                        <<"Model hit the token limit">> } :
         commandRun' =
             IF failure # <<>>
             THEN [commandRun EXCEPT !.at = "end", !.handled = handleError(failure)]
             ELSE IF commandRun.cancelAt # "none"
             THEN [commandRun EXCEPT !.at = "end"]
             ELSE [commandRun EXCEPT !.at = "reveal"]
    /\ UNCHANGED <<engineVars, hunkVars, run, log, first>>

\* the view is focused and, after the delay, showResults is called
ShowResults ==
    /\ commandRun.at = "reveal"
    /\ commandRun' = [commandRun EXCEPT !.at = "end", !.shown = TRUE]
    /\ UNCHANGED <<engineVars, hunkVars, run, log, first>>

CommandNext ==
    \/ ValidateDependencies
    \/ CheckApiKey
    \/ GetSelection
    \/ RequestCancel
    \/ FindGitRoot
    \/ CheckTracked
    \/ BlameFails
    \/ RunGitBlame
    \/ GetCommitMeta
    \/ DirectDiff
    \/ ListModifiedFiles
    \/ TryAlternativePath
    \/ NoChangesFound
    \/ FindPullRequests
    \/ InvocationHangs
    \/ AnalysisEnds
    \/ GenerateSummary
    \/ ShowResults

\* whatever is ready to run runs: the event loop leaves no settled promise
\* waiting
SpecCommand == CommandInit /\ [][CommandNext]_vars /\ WF_vars(CommandNext)

\* the hunk extraction applied to drawn inputs
HunkInit == EngineIdle /\ HunkInputs

HunkNext == ExtractHunks /\ UNCHANGED <<engineVars, twinVars>>

SpecHunks == HunkInit /\ [][HunkNext]_vars

\* hunks of a text that need not be the two-sided diff of one file
AnyHunkPool ==
    { Hunk(10, <<>>, 12, <<>>, <<"-", "+">>),
      Hunk(10, <<>>, 12, <<>>, <<"-", "+", "@", "+">>),
      Hunk(19, <<1>>, 21, <<2>>, <<"-", "+", "+">>) }

\* the text of the diffs of several files, files[f] being the hunks of the
\* f-th file
AnyDiffText(files) ==
    Flatten([f \in 1..Len(files) |->
                FileHeaderLines(PathPool[Len(PathPool) + 1 - f])
                \o Flatten([i \in 1..Len(files[f]) |-> HunkLines(files[f][i])])])
    \o <<EmptyLine>>

AnyDiffInputs ==
    /\ hpc = "in"
    /\ \E n \in 1..MaxFiles :
         hDiff \in [1..n -> { hs \in UNION { [1..k -> AnyHunkPool] : k \in 1..MaxHunks } :
                                \A i \in 1..(Len(hs) - 1) : hs[i].newStart < hs[i + 1].newStart }]
    /\ hAffected \in {SortedKeys(S) : S \in SUBSET AffectedPool}
    /\ hStart \in TargetStarts
    /\ hEnd \in hStart..(hStart + MaxLines)
    /\ hOut = <<>>
    /\ hParsed = <<>>

ExtractFromAnyDiff ==
    /\ hpc = "in"
    /\ hOut' = extractHunksForTrackedLines(AnyDiffText(hDiff), hAffected, hStart, hEnd)
    /\ hParsed' = ParsedHeaders(AnyDiffText(hDiff))
    /\ hpc' = "out"
    /\ UNCHANGED <<hDiff, hAffected, hStart, hEnd>>

\* the hunk extraction applied to any text of diff lines: the diffs of
\* several files one after the other, hunks followed by a header of a
\* combined diff
AnyDiffInit == EngineIdle /\ AnyDiffInputs

AnyDiffNext == ExtractFromAnyDiff /\ UNCHANGED <<engineVars, twinVars>>

SpecAnyDiff == AnyDiffInit /\ [][AnyDiffNext]_vars

\* the blame parser applied to drawn inputs
BlameInit ==
    /\ pc = "blame-in"
    /\ repoState = "tracked"
    /\ startLine \in {1, FirstLine}
    /\ \E n \in 1..MaxBlameLines :
         /\ endLine = startLine + n - 1
         /\ blameOutput \in BlameOutputs(n)
    /\ lineCommitMap = [l \in {} |-> ZeroHash]
    /\ commits = <<>>
    /\ idx = 0
    /\ parts = <<>>
    /\ fileList = <<>>
    /\ possiblePaths = <<>>
    /\ candIdx = 0
    /\ gitCommand = <<>>
    /\ commitInfos = <<>>
    /\ pullRequests = <<>>
    /\ prIdx = 0
    /\ queries = <<>>
    /\ attempts = <<>>
    /\ failed = {}
    /\ result = EmptyResult
    /\ errorMessage = <<>>
    /\ HunkIdle
    /\ TwinIdle

\* lines 37 and 38 of analyzeSelection
ParseBlame ==
    /\ pc = "blame-in"
    /\ lineCommitMap' = parseBlameWithLineTracking(blameOutput, startLine)
    /\ commits' = UniqueCommits(parseBlameWithLineTracking(blameOutput, startLine))
    /\ pc' = "parsed"
    /\ UNCHANGED <<repoState, startLine, endLine, blameOutput, idx, parts,
                   fileList, possiblePaths, candIdx, gitCommand, commitInfos,
                   pullRequests, prIdx, queries, attempts, failed, result,
                   errorMessage, hunkVars>>
    /\ UNCHANGED twinVars

BlameNext == ParseBlame

SpecBlame == BlameInit /\ [][BlameNext]_vars

(***************************************************************************)
(* Properties                                                              *)
(***************************************************************************)
\* the positions at which the map and the unique commits have been computed
BlameParsed == pc \in {"parsed", "meta", "direct", "list", "cand", "prs", "done"}

\* the smallest line the map gives to a commit
FirstLineOf(map, c) ==
    CHOOSE l \in DOMAIN map : map[l] = c /\ \A k \in DOMAIN map : map[k] = c => l <= k

\* the position of an element in a sequence without repetition, 0 when absent
PositionIn(seq, x) ==
    IF \E i \in DOMAIN seq : seq[i] = x
    THEN CHOOSE i \in DOMAIN seq : seq[i] = x
    ELSE 0

\* C1: for a blame output with one attribution header per requested line,
\* the keys of the map parseBlameWithLineTracking returns are exactly
\* startLine..endLine: endLine - startLine + 1 entries, none missing.
C1_MapCoversSelection ==
    BlameParsed =>
        /\ DOMAIN lineCommitMap = startLine..endLine
        /\ Cardinality(DOMAIN lineCommitMap) = endLine - startLine + 1

C1_Witness ==
    /\ pc = "parsed"
    /\ endLine > startLine
    /\ \E i \in DOMAIN blameOutput : StartsWith(blameOutput[i], <<"previous">>)
    /\ DOMAIN lineCommitMap = startLine..endLine

\* C2: the unique commit list holds every commit of the map exactly once,
\* ordered by the smallest line at which the commit appears.
C2_UniqueCommitsFirstSeen ==
    BlameParsed =>
        /\ Range(commits) = {lineCommitMap[l] : l \in DOMAIN lineCommitMap}
        /\ \A i, j \in DOMAIN commits : i # j => commits[i] # commits[j]
        /\ \A i, j \in DOMAIN commits :
             i < j => FirstLineOf(lineCommitMap, commits[i])
                        < FirstLineOf(lineCommitMap, commits[j])

C2_Witness ==
    /\ pc = "parsed"
    /\ \E a, b, c \in DOMAIN lineCommitMap :
         /\ a < b /\ b < c
         /\ lineCommitMap[a] = lineCommitMap[c]
         /\ lineCommitMap[a] # lineCommitMap[b]
    /\ Len(commits) = 2

\* C3 as claimed: the entries of result.commits are in the first-seen order
\* of the unique commit list.
C3_FirstSeenOrderKept ==
    pc = "done" =>
        \A i, j \in DOMAIN result.commits :
            i < j => PositionIn(commits, result.commits[i].hash)
                       < PositionIn(commits, result.commits[j].hash)

\* C3 as amended: the entries of result.commits are sorted by commit date,
\* most recent first, and entries of equal date keep the first-seen order.
C3_SortedByDateDescending ==
    pc = "done" =>
        \A i, j \in DOMAIN result.commits :
            i < j =>
                \/ result.commits[i].date > result.commits[j].date
                \/ /\ result.commits[i].date = result.commits[j].date
                   /\ PositionIn(commits, result.commits[i].hash)
                        < PositionIn(commits, result.commits[j].hash)

C3_Witness ==
    /\ pc = "done"
    /\ Len(result.commits) = 2
    /\ result.commits[1].hash = commits[2]
    /\ result.commits[1].date > result.commits[2].date

\* C4: the result holds exactly one entry for every unique commit of the
\* blame, also for a commit whose metadata or diff query failed.
C4_EveryCommitHasOneEntry ==
    pc = "done" =>
        \A c \in Range(commits) :
            Cardinality({i \in DOMAIN result.commits : result.commits[i].hash = c}) = 1

PerCommitCommands == {"show-meta", "show-diff", "name-only", "gh-pr-list"}

\* C5: once the commits are being resolved analyzeSelection does not fail,
\* every commit of the list is taken up, and every commit none of whose
\* invocations failed has its entry in the result.
C5_FailuresStayLocal ==
    /\ (\E i \in DOMAIN queries : queries[i].cmd \in PerCommitCommands) => pc # "failed"
    /\ pc = "done" =>
         \A c \in Range(commits) :
            /\ \E i \in DOMAIN queries :
                 queries[i].cmd = "show-meta" /\ queries[i].commit = c
            /\ c \notin failed =>
                 \E i \in DOMAIN result.commits : result.commits[i].hash = c

C5_Witness ==
    /\ pc = "done"
    /\ Len(commits) = 2
    /\ commits[1] \in failed
    /\ commits[2] \notin failed
    /\ \E i \in DOMAIN result.commits : result.commits[i].hash = commits[2]

C7_NoHistoryIsExplicit ==
    (pc = "done" /\ \A l \in DOMAIN lineCommitMap : lineCommitMap[l] = ZeroHash)
        => result # EmptyResult

\* the position in attempts of the modified-file query, 0 when none was made
ListAttempt ==
    IF \E i \in DOMAIN attempts : attempts[i].cmd = "name-only"
    THEN CHOOSE i \in DOMAIN attempts : attempts[i].cmd = "name-only"
    ELSE 0

\* the paths of a modified-file list that the loop over possiblePaths queries
QueriedCandidates(files) ==
    SelectSeq(PossiblePaths(files, RelativePath), LAMBDA f : f # <<>> /\ f # RelativePath)

\* the entry of the commit whose attempts are recorded
EntriesOfAttempts ==
    {i \in DOMAIN commitInfos : commitInfos[i].hash = attempts[1].commit}

\* C8: the modified-file list is queried only after the direct-path diff came
\* back empty; the candidates are queried in the order of that list, none
\* left out; nothing is queried after an attempt that gave a diff; and the
\* entry carries the diff of that first non-empty attempt.
C8_TiersInOrder ==
    /\ \A i \in DOMAIN attempts :
         attempts[i].cmd = "name-only" =>
            /\ i > 1
            /\ attempts[i - 1].cmd = "show-diff"
            /\ attempts[i - 1].path = RelativePath
            /\ attempts[i - 1].ok
            /\ attempts[i - 1].out = <<>>
    /\ \A i \in DOMAIN attempts :
         (ListAttempt # 0 /\ i > ListAttempt) =>
            /\ attempts[i].cmd = "show-diff"
            /\ attempts[ListAttempt].ok
            /\ i - ListAttempt <= Len(QueriedCandidates(attempts[ListAttempt].out))
            /\ attempts[i].path = QueriedCandidates(attempts[ListAttempt].out)[i - ListAttempt]
    /\ \A i, j \in DOMAIN attempts :
         (i < j /\ attempts[i].cmd = "show-diff") =>
            attempts[i].ok /\ attempts[i].out = <<>>
    /\ \A i \in DOMAIN attempts :
         (attempts[i].cmd = "show-diff" /\ attempts[i].ok /\ attempts[i].out # <<>>) =>
            /\ i = Len(attempts)
            /\ EntriesOfAttempts # {}
            /\ \A e \in EntriesOfAttempts :
                 commitInfos[e].diff =
                     RelevantDiffText(attempts[i].out,
                                      AffectedLinesOf(lineCommitMap, attempts[i].commit),
                                      startLine, endLine)

C8_Witness ==
    /\ Len(attempts) = 5
    /\ attempts[2].out = <<>>
    /\ attempts[3].cmd = "name-only"
    /\ attempts[4].ok /\ attempts[4].out = <<>>
    /\ attempts[4].path = <<"lib", "/", "old_", "util.ts">>
    /\ attempts[5].path = <<"lib", "/", "util.ts">>
    /\ attempts[5].ok /\ attempts[5].out # <<>>
    /\ EntriesOfAttempts # {}

IsNoChangesText(text) ==
    text # <<>> /\ StartsWith(text[1].text, <<"#", " No changes found for ">>)

IsErrorText(text) ==
    text # <<>> /\ StartsWith(text[1].text, <<"#", " Error retrieving line evolution diff: ">>)

\* the command line of an attempt of the resolver
CommandOfAttempt(a) ==
    IF a.cmd = "name-only"
    THEN <<"git show ", a.commit, " --name-only --format=">>
    ELSE ShowCommand(a.commit, a.path)

\* C9: the text returned when every tier gave an empty diff is not the error
\* text, and it names every attempt that was made and the working directory.
C9_NoChangeNamesEveryTier ==
    \A e \in (IF attempts = <<>> THEN {} ELSE EntriesOfAttempts) :
        IsNoChangesText(commitInfos[e].diff) =>
            /\ ~IsErrorText(commitInfos[e].diff)
            /\ \E k \in DOMAIN commitInfos[e].diff :
                 commitInfos[e].diff[k].text = <<"#", " Working dir: ">> \o WorkingDir
            /\ \A i \in 2..Len(attempts) :
                 \E k \in DOMAIN commitInfos[e].diff :
                    commitInfos[e].diff[k].text
                        = <<"#", " Git command: ">> \o CommandOfAttempt(attempts[i])

\* the count the header parse yields for what the header writes
ParsedCount(written) == IF written = <<>> \/ written[1] = 0 THEN 1 ELSE written[1]

\* the text extractHunksForTrackedLines returns for a selected hunk
SelectedText(h) ==
    <<HunkHeaderLine(h)>>
    \o SelectSeq([i \in 1..Len(h.body) |-> BodyLine(h.body[i])],
                 LAMBDA l : l.text[1] \in {"+", "-", " "})

\* C10: a hunk is selected exactly when its new-range, from newStart to
\* newStart + newCount - 1 with the parsed count, overlaps the original range
\* (hunkEnd >= originalStartLine and hunkStart <= originalEndLine) or holds
\* one of the affected lines.
C10_SelectedIffRelevant ==
    hpc = "out" =>
        \A i \in DOMAIN hDiff :
            LET hunkStart == hDiff[i].newStart
                hunkEnd == hDiff[i].newStart + ParsedCount(hDiff[i].newCount) - 1
            IN  (\E k \in DOMAIN hOut : hOut[k] = SelectedText(hDiff[i]))
                <=> \/ (hunkEnd >= hStart /\ hunkStart <= hEnd)
                    \/ \E a \in Range(hAffected) : a >= hunkStart /\ a <= hunkEnd

\* new-range 12..16 against 14..14 is selected by the overlap, and
\* new-range 21..22 by the affected line 21
C10_Witness ==
    /\ hpc = "out"
    /\ Len(hDiff) = 2
    /\ hDiff[1].newStart = 12 /\ hDiff[1].newCount = <<5>>
    /\ hStart = 14 /\ hEnd = 14
    /\ hAffected = <<21>>
    /\ \E k \in DOMAIN hOut : hOut[k] = SelectedText(hDiff[1])
    /\ \E k \in DOMAIN hOut : hOut[k] = SelectedText(hDiff[2])

\* the hunks of the change whose text a diff query returned
ResolvedHunks(out, path) == CHOOSE d \in EngineDiffs : DiffText(d, path) = out

\* the relevance test of a hunk of the resolved diff of a commit
HunkIsRelevant(h, commitHash) ==
    Relevant(h.newStart, ParsedCount(h.newCount),
             Range(AffectedLinesOf(lineCommitMap, commitHash)), startLine, endLine)

\* the attempts of the commit being resolved that gave a diff
ResolvedAttempts ==
    {i \in DOMAIN attempts :
        attempts[i].cmd = "show-diff" /\ attempts[i].ok /\ attempts[i].out # <<>>}

\* C11: the entry of a commit whose diff was resolved holds no line of a
\* hunk of that diff that fails the relevance test, however many hunks of
\* the diff pass it.
C11_OnlyRelevantHunks ==
    \A i \in ResolvedAttempts : \A e \in EntriesOfAttempts :
        \A h \in Range(ResolvedHunks(attempts[i].out, attempts[i].path)) :
            ~HunkIsRelevant(h, attempts[i].commit) =>
                \A k \in DOMAIN commitInfos[e].diff :
                    commitInfos[e].diff[k] # HunkHeaderLine(h)

\* the count a header writes, 1 when it writes none
WrittenCount(written) == IF written = <<>> THEN 1 ELSE written[1]

\* C12: every header `@@ -a[,b] +c[,d] @@` parses to oldStart = a and
\* newStart = c, to the counts b and d it writes, 0 included, and to a
\* count of 1 where it writes none.
C12_HeaderParsesAsWritten ==
    hpc = "out" =>
        /\ Len(hParsed) = Len(hDiff)
        /\ \A i \in DOMAIN hDiff :
             /\ hParsed[i].oldStart = hDiff[i].oldStart
             /\ hParsed[i].newStart = hDiff[i].newStart
             /\ hParsed[i].oldCount = WrittenCount(hDiff[i].oldCount)
             /\ hParsed[i].newCount = WrittenCount(hDiff[i].newCount)

\* the lines the map gives to a commit
LinesOf(c) == {l \in DOMAIN lineCommitMap : lineCommitMap[l] = c}

\* the positions at which getLineEvolutionDiff is resolving commits[idx]
InLineEvolutionDiff == pc \in {"direct", "list", "cand"}

\* C13: the affected lines of the commit getLineEvolutionDiff is given are
\* the lines the map gives to that commit: a non-empty subset of
\* startLine..endLine, so the "did not modify" branch is never taken; the
\* sets of distinct commits are disjoint and together are the mapped lines.
C13_AffectedLinesPartition ==
    /\ InLineEvolutionDiff =>
         /\ Range(AffectedLinesOf(lineCommitMap, commits[idx])) = LinesOf(commits[idx])
         /\ AffectedLinesOf(lineCommitMap, commits[idx]) # <<>>
         /\ Range(AffectedLinesOf(lineCommitMap, commits[idx])) \subseteq startLine..endLine
    /\ \A e \in DOMAIN commitInfos :
         /\ commitInfos[e].diff # NotTouchedText(startLine, endLine)
         /\ IsNoChangesText(commitInfos[e].diff) =>
              commitInfos[e].diff[2].nums = SortedKeys(LinesOf(commitInfos[e].hash))
    /\ BlameParsed =>
         /\ \A i, j \in DOMAIN commits :
              i # j => Range(AffectedLinesOf(lineCommitMap, commits[i]))
                         \cap Range(AffectedLinesOf(lineCommitMap, commits[j])) = {}
         /\ UNION {Range(AffectedLinesOf(lineCommitMap, commits[i])) : i \in DOMAIN commits}
              = DOMAIN lineCommitMap

\* the first line is of one commit and the second of another, and the
\* second commit is being resolved
C13_Witness ==
    /\ pc = "direct"
    /\ idx = 2
    /\ AffectedLinesOf(lineCommitMap, commits[1]) = <<FirstLine>>
    /\ AffectedLinesOf(lineCommitMap, commits[2]) = <<FirstLine + 1>>

\* an entry's diff holds the header of a hunk that passes the relevance test
IsHunkDebugText(text) ==
    text # <<>> /\ StartsWith(text[1].text, <<"#", " DEBUG: Hunk analysis for lines ">>)

\* the relevance test of a parsed header against the lines of an entry's commit
HeaderIsRelevant(parsed, info) ==
    Relevant(parsed.newStart, parsed.newCount, LinesOf(info.hash), startLine, endLine)

CarriesRelevantHunk(info) ==
    \E k \in DOMAIN info.diff :
        /\ StartsWith(info.diff[k].text, <<"@", "@">>)
        /\ HeaderMatch(info.diff[k]) # <<>>
        /\ HeaderIsRelevant(ParseHeader(info.diff[k]), info)

\* how many of the texts that explain a diff without a relevant hunk an
\* entry's diff is
ExplanationsOf(text) ==
    Cardinality({t \in {"none", "error", "debug"} :
        \/ t = "none" /\ IsNoChangesText(text)
        \/ t = "error" /\ IsErrorText(text)
        \/ t = "debug" /\ IsHunkDebugText(text)})

\* C14 as claimed: every entry carries a relevant hunk or the text saying
\* that no changes were found after the fallback tiers.
C14_HunkOrNoChanges ==
    \A e \in DOMAIN commitInfos :
        CarriesRelevantHunk(commitInfos[e]) \/ IsNoChangesText(commitInfos[e].diff)

\* C14 as amended: no entry has an empty diff; an entry carries a relevant
\* hunk, or exactly one of the texts that say why it carries none: no
\* changes found after the tiers, a diff query that failed, or a resolved
\* diff none of whose hunks is relevant.
C14_EveryEntryExplained ==
    \A e \in DOMAIN commitInfos :
        /\ commitInfos[e].diff # <<>>
        /\ ExplanationsOf(commitInfos[e].diff)
             = (IF CarriesRelevantHunk(commitInfos[e]) THEN 0 ELSE 1)

\* the result holds an entry of a failed diff query and an entry of a diff
\* without a relevant hunk
C14_Witness ==
    /\ pc = "done"
    /\ Len(result.commits) = 2
    /\ \E i, j \in DOMAIN result.commits :
         /\ IsErrorText(result.commits[i].diff)
         /\ IsHunkDebugText(result.commits[j].diff)

\* an entry names a path: as its filename or in a line of its diff
RecordsPath(info, path) ==
    \/ info.filename = path
    \/ \E k \in DOMAIN info.diff : Contains(info.diff[k].text, path)

\* C15: the entry of a commit whose diff was resolved through another path
\* than the caller's names that path.
C15_HistoricalPathRecorded ==
    \A i \in ResolvedAttempts : \A e \in EntriesOfAttempts :
        attempts[i].path # RelativePath => RecordsPath(commitInfos[e], attempts[i].path)

SameFilename(f, path) == LastSegment(f) = LastSegment(path)

C17_CandidatesHaveTheFilename ==
    pc = "cand" =>
        possiblePaths = SelectSeq(fileList, LAMBDA f : SameFilename(f, RelativePath))


(***************************************************************************)
(* C18: when the direct-path lookup and the basename search both gave an   *)
(* empty diff for a commit, the diff between the commit and its first      *)
(* parent is queried before the entry says that no change was found.       *)
(***************************************************************************)
C18_ParentDiffBeforeNoChange ==
    \A e \in DOMAIN commitInfos :
        IsNoChangesText(commitInfos[e].diff) =>
            \E i \in DOMAIN queries :
                /\ queries[i].cmd = "parent-diff"
                /\ queries[i].commit = commitInfos[e].hash


(***************************************************************************)
(* C19: in a relevant hunk every line that starts with '+', '-' or a space *)
(* is kept as content of the hunk, in the order of the diff, and every     *)
(* line with another first character (`\ No newline at end of file`) is    *)
(* left out; the scan goes on after such a line and returns.               *)
(***************************************************************************)
BodyLines(h) == [i \in 1..Len(h.body) |-> BodyLine(h.body[i])]

HasContent(h) == \E i \in DOMAIN h.body : h.body[i] \in {"+", "-", " "}

C19_ContentKeptOthersSkipped ==
    hpc = "out" =>
        \A i \in DOMAIN hDiff :
            /\ \A k \in DOMAIN hOut :
                 hOut[k][1] = HunkHeaderLine(hDiff[i]) =>
                    Tail(hOut[k]) = SelectSeq(BodyLines(hDiff[i]),
                                        LAMBDA l : l.text[1] \in {"+", "-", " "})
            /\ (/\ HasContent(hDiff[i])
                /\ Relevant(hDiff[i].newStart, ParseCountOrOne(hDiff[i].newCount),
                            Range(hAffected), hStart, hEnd))
                 => \E k \in DOMAIN hOut : hOut[k][1] = HunkHeaderLine(hDiff[i])

C19_Witness ==
    /\ hpc = "out"
    /\ Len(hDiff) = 2
    /\ hDiff[2].body = <<"-", "\\", "+", "+", "\\">>
    /\ Len(hOut) = 2
    /\ hOut[2] = <<HunkHeaderLine(hDiff[2]), BodyLine("-"), BodyLine("+"), BodyLine("+")>>


(***************************************************************************)
(* C20: the hunks extractHunksForTrackedLines returns are a subsequence of *)
(* the hunks of the diff it was given, in the same relative order; the     *)
(* diff's hunks being in ascending newStart order, so are the returned.    *)
(***************************************************************************)
\* the position in the diff of the hunk with the header `header`, 0 if none
InputPosition(header) ==
    IF \E i \in DOMAIN hDiff : HunkHeaderLine(hDiff[i]) = header
    THEN CHOOSE i \in DOMAIN hDiff : HunkHeaderLine(hDiff[i]) = header
    ELSE 0

ReturnsHunks == hpc = "out" /\ ~IsHunkDebugText(hOut[1])

C20_ReturnedInInputOrder ==
    ReturnsHunks =>
        /\ \A k \in DOMAIN hOut :
             /\ InputPosition(hOut[k][1]) # 0
             /\ hOut[k] = SelectedText(hDiff[InputPosition(hOut[k][1])])
        /\ \A j, k \in DOMAIN hOut :
             j < k =>
                /\ InputPosition(hOut[j][1]) < InputPosition(hOut[k][1])
                /\ ParseHeader(hOut[j][1]).newStart < ParseHeader(hOut[k][1]).newStart

C20_Witness ==
    /\ ReturnsHunks
    /\ Len(hOut) = 2
    /\ InputPosition(hOut[1][1]) = 1
    /\ InputPosition(hOut[2][1]) = 2
    /\ hDiff[1].newStart = 12 /\ hDiff[2].newStart = 20

(***************************************************************************)
(* C21: a file that is on disk but not tracked and a file that is not on   *)
(* disk make analyzeSelection fail with two different messages, and each   *)
(* of the two messages carries the path relative to the git root.          *)
(***************************************************************************)
SaysNotTracked(message) == Contains(message, <<" is not tracked by git. Please add it with: git add ">>)

SaysDoesNotExist(message) == Contains(message, <<" does not exist.">>)

C22_BlameThenResolveThenExtract ==
    /\ (\E i \in DOMAIN queries :
            queries[i].cmd \in {"show-meta", "show-diff", "name-only"}) =>
         /\ DOMAIN lineCommitMap = startLine..endLine
         /\ commits = UniqueCommits(lineCommitMap)
    /\ \A i \in DOMAIN queries :
         queries[i].cmd \in {"show-meta", "show-diff", "name-only"} =>
            /\ \E j \in 1..(i - 1) : queries[j].cmd = "blame"
            /\ \A j \in (i + 1)..Len(queries) : queries[j].cmd # "blame"
            /\ \E k \in DOMAIN commits : queries[i].commit = commits[k]
    /\ pc \in {"meta", "direct", "list", "cand"} =>
         \A e \in DOMAIN commitInfos : commitInfos[e].hash # commits[idx]
    /\ \A e \in DOMAIN commitInfos :
         (attempts # <<>> /\ attempts[1].cmd = "show-meta"
             /\ attempts[1].commit = commitInfos[e].hash) =>
            /\ pc \notin {"direct", "list", "cand"}
            /\ queries[Len(queries)].commit = commitInfos[e].hash
            /\ queries[Len(queries)].cmd = attempts[Len(attempts)].cmd
            /\ queries[Len(queries)].path = attempts[Len(attempts)].path

C22_Witness ==
    /\ pc = "cand"
    /\ idx = 2
    /\ Len(commitInfos) = 1
    /\ \E k \in DOMAIN commitInfos[1].diff :
         StartsWith(commitInfos[1].diff[k].text, <<"@", "@">>)
    /\ Len(queries) = 9

(***************************************************************************)
(* C25: the timeline createTimeline returns has exactly one item for each  *)
(* commit and exactly one for each pull request it was given, so its       *)
(* length is their number, and it is ordered by date, most recent first.   *)
(***************************************************************************)
C25_TimelineHoldsEachOnce ==
    pc = "done" =>
        /\ Len(result.timeline) = Len(result.commits) + Len(result.pullRequests)
        /\ \A i \in DOMAIN result.commits :
             Cardinality({k \in DOMAIN result.timeline :
                 /\ result.timeline[k].type = "commit"
                 /\ result.timeline[k].data = result.commits[i]
                 /\ result.timeline[k].date = result.commits[i].date}) = 1
        /\ \A i \in DOMAIN result.pullRequests :
             Cardinality({k \in DOMAIN result.timeline :
                 /\ result.timeline[k].type = "pullRequest"
                 /\ result.timeline[k].data = result.pullRequests[i]
                 /\ result.timeline[k].date = result.pullRequests[i].createdAt}) = 1
        /\ \A j, k \in DOMAIN result.timeline :
             j < k => result.timeline[j].date >= result.timeline[k].date

C25_Witness ==
    /\ pc = "done"
    /\ Len(result.timeline) = 4
    /\ result.timeline[1].type = "commit"
    /\ result.timeline[2].type = "pullRequest"
    /\ result.timeline[3].type = "commit"
    /\ result.timeline[1].date > result.timeline[3].date

(***************************************************************************)
(* C26: when the affected lines all lie in the original range, a hunk that *)
(* holds an affected line also overlaps the range, so the hunks selected   *)
(* are those the range overlap alone selects.                              *)
(***************************************************************************)
C26_AffectedLineAddsNothing ==
    (hpc = "out" /\ Range(hAffected) \subseteq hStart..hEnd) =>
        \A i \in DOMAIN hParsed :
            /\ hasAffectedLine(hParsed[i].newStart,
                               hParsed[i].newStart + hParsed[i].newCount - 1,
                               Range(hAffected))
                 => hasIntersection(hParsed[i].newStart,
                                    hParsed[i].newStart + hParsed[i].newCount - 1,
                                    hStart, hEnd)
            /\ (\E k \in DOMAIN hOut : hOut[k][1] = HunkHeaderLine(hDiff[i]))
                 <=> /\ hParsed[i].newStart + hParsed[i].newCount - 1 >= hStart
                     /\ hParsed[i].newStart <= hEnd

C26_Witness ==
    /\ hpc = "out"
    /\ hAffected = <<12>>
    /\ hStart = 11 /\ hEnd = 12
    /\ hParsed[1].newStart = 12 /\ hParsed[1].newCount = 5
    /\ hasAffectedLine(12, 16, Range(hAffected))
    /\ hOut[1][1] = HunkHeaderLine(hDiff[1])

(***************************************************************************)
(* C27: whatever the text, a line starting with `@@` that does not parse   *)
(* as a two-sided header included, a hunk of the input is returned at most *)
(* once, and the content lines after such a line are not attached to the   *)
(* hunk before it.                                                         *)
(***************************************************************************)
\* the content lines of a hunk, up to the combined-diff header if it has one
OwnContent(h) ==
    LET stops == {i \in DOMAIN h.body : h.body[i] = "@"}
        last == IF stops = {} THEN Len(h.body)
                ELSE (CHOOSE i \in stops : \A j \in stops : i <= j) - 1
    IN  SelectSeq([i \in 1..last |-> BodyLine(h.body[i])], IsContentLine)

\* the hunks of the input, as pairs of a file and a position in it
InputHunks == {p \in (1..MaxFiles) \X (1..MaxHunks) :
                  p[1] \in DOMAIN hDiff /\ p[2] \in DOMAIN hDiff[p[1]]}

C27_EachHunkAtMostOnce ==
    (hpc = "out" /\ ~IsHunkDebugText(hOut[1])) =>
        /\ \A h \in AnyHunkPool :
             Cardinality({k \in DOMAIN hOut : hOut[k][1] = HunkHeaderLine(h)})
                 <= Cardinality({p \in InputHunks :
                        HunkHeaderLine(hDiff[p[1]][p[2]]) = HunkHeaderLine(h)})
        /\ Len(hDiff) = 1 =>
             \A k \in DOMAIN hOut :
                \E p \in InputHunks :
                    hOut[k] = <<HunkHeaderLine(hDiff[p[1]][p[2]])>>
                              \o OwnContent(hDiff[p[1]][p[2]])

(***************************************************************************)
(* C28: whatever the text, the diffs of several files included, no file    *)
(* header line (`diff --git`, `index`, `---`, `+++`) is a content line of  *)
(* a returned hunk.                                                        *)
(***************************************************************************)
C28_NoFileHeaderInHunk ==
    (hpc = "out" /\ ~IsHunkDebugText(hOut[1])) =>
        \A k \in DOMAIN hOut : \A j \in 2..Len(hOut[k]) :
            /\ ~StartsWith(hOut[k][j].text, <<"diff --git">>)
            /\ ~StartsWith(hOut[k][j].text, <<"index">>)
            /\ ~StartsWith(hOut[k][j].text, <<"-", "-", "-">>)
            /\ ~StartsWith(hOut[k][j].text, <<"+", "+", "+">>)

(***************************************************************************)
(* C23: once the caller has requested cancellation, the engine starts the  *)
(* resolution of no further commit: after the commit being resolved, no    *)
(* metadata query is issued for the next one.                              *)
(***************************************************************************)
C23_NoCommitStartedAfterCancel ==
    [][(commandRun.cancelAt # "none" /\ pc = "meta" /\ idx > 1)
          => ~(/\ Len(queries') > Len(queries)
               /\ queries'[Len(queries')].cmd = "show-meta")]_vars

(***************************************************************************)
(* C24: an invocation made while a commit is resolved that never returns   *)
(* does not keep analyzeSelection from returning: the call ends, with a    *)
(* result or with a failure.                                               *)
(***************************************************************************)
C24_HungInvocationDoesNotBlock == (pc = "hung") ~> (pc \in {"done", "failed"})

(***************************************************************************)
(* C29: the failure of analyzeSelection for a file outside any git         *)
(* repository takes handleError to its not-a-git-repository branch, the    *)
(* one with the 'Open Git Repository' button.                              *)
(***************************************************************************)
C29_NotARepositoryBranch ==
    (commandRun.at = "end" /\ pc = "failed" /\ repoState = "notrepo")
        => commandRun.handled = "Open Git Repository"

(***************************************************************************)
(* C30: the git analysis is started only when the dependency check has     *)
(* passed, an API key is present and the editor has a block selected; and  *)
(* when cancellation was requested before the analysis or before the       *)
(* summary completed, the results are not shown.                           *)
(***************************************************************************)
C30_GatedStartAndCancelHidesResults ==
    /\ (pc # "start" \/ queries # <<>>) =>
         /\ commandRun.deps
         /\ commandRun.key
         /\ commandRun.selection = "block"
    /\ commandRun.cancelAt \in {"analysis", "summary"} => ~commandRun.shown

C30_Witness ==
    /\ commandRun.at = "end"
    /\ commandRun.cancelAt = "summary"
    /\ pc = "done"
    /\ Len(result.commits) = 2
    /\ ~commandRun.shown
    /\ commandRun.handled = "none"

====
